---- MODULE Spec2Model ----
(***************************************************************************)
(* openkaito: StructuredSearchEngine                                       *)
(* (src/openkaito/search/structured_search_engine.py).                     *)
(*                                                                         *)
(* The engine sits between three collaborators: the search client (an      *)
(* Elasticsearch index named "twitter"), the ranking models and the        *)
(* optional twitter crawler.  The state is the index (does it exist, which *)
(* documents does it hold under which _id), the engines (how far their     *)
(* construction got, their recall_size and crawler) and the record of the  *)
(* call that has just completed.  One action per operation of the class;   *)
(* what the collaborators answer is drawn with \E.                         *)
(*                                                                         *)
(* Encoding of values: timestamps and created_at are integers; an optional *)
(* value is <<>> (None) or <<v>>; a text is the set of its terms; a        *)
(* document is a function from field names to values, so a document may    *)
(* lack a field.                                                           *)
(***************************************************************************)
EXTENDS Integers, Sequences, FiniteSets, TLC

\* ------------------------------------------------------------- bounds
MaxId == 2
MaxTime == 1
MaxSize == 2
MaxRecall == 2
MaxBatch == 2
NumEngines == 2

Ids == 1..MaxId
Times == 0..MaxTime
Sizes == 1..MaxSize
RecallSizes == 1..MaxRecall
Engines == 1..NumEngines

\* ---------------------------------------------------------- documents
\* The nine fields of the index mapping and of twitter_doc_mapper.
Fields ==
  {"id", "text", "created_at", "username", "url",
   "quote_count", "reply_count", "retweet_count", "favorite_count"}

\* A created_at value that is not a date (the mapping declares a date).
NotADate == -1

\* The text of tweet i: every tweet holds "alpha", the even ones "beta" too.
TextOf(i) == IF i % 2 = 1 THEN {"alpha"} ELSE {"alpha", "beta"}

\* A complete crawled document.
Tweet(i, t) ==
  [id |-> i, text |-> TextOf(i), created_at |-> t, username |-> "u",
   url |-> "l", quote_count |-> 0, reply_count |-> 0, retweet_count |-> 0,
   favorite_count |-> 0]

Without(doc, f) == [g \in (DOMAIN doc) \ {f} |-> doc[g]]

\* What the crawler may hand back as one document: a complete tweet, a
\* tweet without its url, a tweet whose created_at is no date, a record
\* without an id.
ValidDocs == {Tweet(i, t) : i \in Ids, t \in Times}
NoUrlDocs == {Without(Tweet(1, 0), "url")}
BadDateDocs == {Tweet(1, NotADate)}
NoIdDocs == {Without(Tweet(1, 0), "id")}
CrawledDocs == ValidDocs \cup NoUrlDocs \cup BadDateDocs \cup NoIdDocs

RECURSIVE SeqsUpTo(_, _)
SeqsUpTo(S, n) ==
  IF n = 0 THEN {<<>>}
  ELSE LET shorter == SeqsUpTo(S, n - 1)
       IN shorter \cup {Append(s, x) : s \in {r \in shorter : Len(r) = n - 1}, x \in S}

Min(a, b) == IF a <= b THEN a ELSE b

\* The sequences of k distinct elements of S.
InjSeqs(S, k) ==
  {s \in SeqsUpTo(S, k) :
     Len(s) = k /\ \A i, j \in 1..k : i # j => s[i] # s[j]}

\* ------------------------------------------------- the search client
\* The index mapping of init_indices: created_at is a date, so the backend
\* rejects a document whose created_at is none.
MappingAccepts(doc) ==
  "created_at" \in DOMAIN doc => doc["created_at"] \in Times

\* doc_as_upsert: the fields of doc overwrite those stored, the others stay.
Merge(old, doc) ==
  [f \in (DOMAIN old) \cup (DOMAIN doc) |->
     IF f \in DOMAIN doc THEN doc[f] ELSE old[f]]

\* One "update" directive of a bulk body applied to the stored documents s.
Upsert(s, key, doc) ==
  IF ~MappingAccepts(doc) THEN s
  ELSE [k \in (DOMAIN s) \cup {key} |->
          IF k = key
            THEN (IF key \in DOMAIN s THEN Merge(s[key], doc) ELSE doc)
            ELSE s[k]]

\* A bulk body is a sequence of [_id, doc] pairs, applied in order; an item
\* the backend rejects is skipped and the others are still applied.
RECURSIVE BulkApply(_, _)
BulkApply(s, body) ==
  IF body = <<>> THEN s
  ELSE BulkApply(Upsert(s, Head(body)._id, Head(body).doc), Tail(body))

\* The "errors" flag of the bulk response.
BulkErrors(body) == \E i \in 1..Len(body) : ~MappingAccepts(body[i].doc)

\* The documents of s an es_query matches: every term of the query string
\* is in the text (default_operator AND) and created_at is in the range.
Matches(doc, esq) ==
  /\ "text" \in DOMAIN doc
  /\ esq.query \subseteq doc["text"]
  /\ (esq.lte # <<>> \/ esq.gte # <<>>) => "created_at" \in DOMAIN doc
  /\ esq.lte # <<>> => doc["created_at"] <= esq.lte[1]
  /\ esq.gte # <<>> => doc["created_at"] >= esq.gte[1]

Matching(s, esq) == {k \in DOMAIN s : Matches(s[k], esq)}

\* The hit lists the backend may answer with: the first esq.size matching
\* documents, in descending created_at order when the query asks for that
\* sort (ties in any order), in the order of the backend's own scoring
\* (any order) when it does not.
HitLists(s, esq) ==
  LET M == Matching(s, esq)
      k == Min(esq.size, Cardinality(M))
      Top(ks) ==
        /\ \A i, j \in 1..k : i < j => s[ks[i]]["created_at"] >= s[ks[j]]["created_at"]
        /\ \A m \in M : \A i \in 1..k :
             (\A j \in 1..k : ks[j] # m) => s[m]["created_at"] <= s[ks[i]]["created_at"]
  IN {[i \in 1..k |-> s[ks[i]]] : ks \in {x \in InjSeqs(M, k) : esq.sort => Top(x)}}

\* ------------------------------------------------------------ requests
NoneOpt == <<>>
OptTimes == {NoneOpt} \cup {<<t>> : t \in Times}
SortTypes == {"RELEVANCE", "RECENCY", "None"}
QueryStrings == {{"alpha"}, {"alpha", "beta"}}

Request(name, qs, size, sort, earlier, later) ==
  [name |-> name, query_string |-> qs, size |-> size, sort_type |-> sort,
   earlier_than_timestamp |-> earlier, later_than_timestamp |-> later]

\* The structured variant carries a sort type and time bounds; the basic
\* variant (SearchSynapse) has no time bounds.
StructuredRequests ==
  {Request("StructuredSearchSynapse", qs, n, st, e, l) :
     qs \in QueryStrings, n \in Sizes, st \in SortTypes, e \in OptTimes, l \in OptTimes}
BasicRequests ==
  {Request("SearchSynapse", qs, n, st, NoneOpt, NoneOpt) :
     qs \in QueryStrings, n \in Sizes, st \in SortTypes}
Requests == StructuredRequests \cup BasicRequests

\* ---------------------------------------------------------- the engine
\* Python's truth value of an optional integer: None and 0 are false.
Truthy(opt) == opt # <<>> /\ opt[1] # 0

\* recall, lines 105-136: the query sent to the backend.
\* Variant: the query without the sort clause of lines 135-136.
es_query_NoSort(search_query, recall_size) ==
  LET structured == search_query.name = "StructuredSearchSynapse"
  IN [query |-> search_query.query_string,
      lte |-> IF structured /\ Truthy(search_query.earlier_than_timestamp)
                THEN search_query.earlier_than_timestamp ELSE NoneOpt,
      gte |-> IF structured /\ Truthy(search_query.later_than_timestamp)
                THEN search_query.later_than_timestamp ELSE NoneOpt,
      sort |-> FALSE,
      size |-> recall_size]

\* The query as the code builds it.
es_query(search_query, recall_size) ==
  LET structured == search_query.name = "StructuredSearchSynapse"
  IN [query |-> search_query.query_string,
      lte |-> IF structured /\ Truthy(search_query.earlier_than_timestamp)
                THEN search_query.earlier_than_timestamp ELSE NoneOpt,
      gte |-> IF structured /\ Truthy(search_query.later_than_timestamp)
                THEN search_query.later_than_timestamp ELSE NoneOpt,
      sort |-> structured /\ search_query.sort_type = "RECENCY",
      size |-> recall_size]

\* twitter_doc_mapper raises KeyError on a document lacking one of the nine
\* fields, and projects the nine fields otherwise.
MapperRaises(doc) == ~(Fields \subseteq DOMAIN doc)
twitter_doc_mapper(doc) == [f \in Fields |-> doc[f]]

\* What search_client.search may do: answer with hits, raise, or answer
\* with a response without ["hits"]["hits"].
Answers == {"hits", "raises", "malformed"}

\* recall, lines 140-155, given the backend's answer: any exception of the
\* try block (the query, the response's keys, the mapper) gives the empty
\* list.
\* Variant: a handler that keeps the documents mapped before the failure.
recall_KeepsMapped(answer, hits) ==
  IF answer # "hits" THEN <<>>
  ELSE LET bad == {i \in 1..Len(hits) : MapperRaises(hits[i])}
           n == IF bad = {} THEN Len(hits)
                ELSE (CHOOSE i \in bad : \A j \in bad : i <= j) - 1
       IN [i \in 1..n |-> twitter_doc_mapper(hits[i])]

\* recall as the code has it.
recall(answer, hits) ==
  IF answer # "hits" \/ \E i \in 1..Len(hits) : MapperRaises(hits[i])
    THEN <<>>
    ELSE [i \in 1..Len(hits) |-> twitter_doc_mapper(hits[i])]

\* search, lines 87-95: the ranking model of a request.
\* Variant: the choice by sort_type alone, without the test of the name.
ranking_model_BySortOnly(search_query) ==
  IF search_query.sort_type = "RECENCY" THEN "recency" ELSE "relevance"

\* The choice as the code makes it.
ranking_model(search_query) ==
  IF search_query.name = "StructuredSearchSynapse"
     /\ search_query.sort_type = "RECENCY"
    THEN "recency" ELSE "relevance"

\* RecencyRankingModel.rank: the documents by created_at, latest first
\* (a stable sort: documents of one created_at keep their order).
RECURSIVE recency_rank(_)
recency_rank(documents) ==
  IF documents = <<>> THEN <<>>
  ELSE LET n == Len(documents)
           last == documents[n]
           front == recency_rank(SubSeq(documents, 1, n - 1))
           ahead == {i \in 1..Len(front) :
                       front[i]["created_at"] >= last["created_at"]}
           k == Cardinality(ahead)
       IN SubSeq(front, 1, k) \o <<last>> \o SubSeq(front, k + 1, Len(front))

\* The relevance ranking model is supplied from outside: it answers with
\* some of its candidates in some order, or raises.
RelevanceOutcomes(documents) ==
  {[raised |-> TRUE, ranked |-> <<>>]}
  \cup {[raised |-> FALSE, ranked |-> [i \in 1..Len(p) |-> documents[p[i]]]] :
          p \in UNION {InjSeqs(1..Len(documents), k) : k \in 0..Len(documents)}}

RankOutcomes(model, documents) ==
  IF model = "recency"
    THEN {[raised |-> FALSE, ranked |-> recency_rank(documents)]}
    ELSE RelevanceOutcomes(documents)

\* search, line 99: results[:result_size], for a result_size >= 0.
\* Variant: the ranked list returned whole.
Truncate_Nothing(results, result_size) == results

\* The slice as the code takes it.
Truncate(results, result_size) ==
  SubSeq(results, 1, Min(result_size, Len(results)))

\* ------------------------------------------------------------ ingestion
\* What twitter_crawler.search may do: answer with a list of documents,
\* answer with something that is no sequence (None), or raise.
CrawlAnswers == {"docs", "not_a_sequence", "raises"}
Crawlers == {"None", "crawler"}
\* A crawl result holds at most MaxBatch documents, each tweet once.
SameTweet(a, b) ==
  IF "id" \in DOMAIN a /\ "id" \in DOMAIN b THEN a["id"] = b["id"] ELSE a = b
Batches ==
  {b \in SeqsUpTo(CrawledDocs, MaxBatch) :
     \A i, j \in 1..Len(b) : i # j => ~SameTweet(b[i], b[j])}

\* crawl_and_index_data, lines 161-171: the crawl.  Without a crawler the
\* warning is logged and the try block is entered all the same; there the
\* attribute lookup on None raises, as len() of a non-sequence does, and
\* every exception of the block gives the empty batch.
\* Variant: a crawl whose failure leaves the function as an exception.
crawl_Propagating(twitter_crawler, crawl_answer, batch) ==
  LET failed == twitter_crawler = "None" \/ crawl_answer # "docs"
  IN [log |-> (IF twitter_crawler = "None"
                 THEN <<"warning: crawler is not initialized">> ELSE <<>>),
      crawl_attempts |-> 1,
      failed |-> failed,
      raised |-> failed,
      processed_docs |-> IF failed THEN <<>> ELSE batch]

\* The crawl as the code has it.
crawl(twitter_crawler, crawl_answer, batch) ==
  LET failed == twitter_crawler = "None" \/ crawl_answer # "docs"
  IN [log |-> (IF twitter_crawler = "None"
                 THEN <<"warning: crawler is not initialized">> ELSE <<>>)
              \o (IF failed THEN <<"error: crawling error">>
                  ELSE <<"debug: crawled">>),
      crawl_attempts |-> 1,
      failed |-> failed,
      raised |-> FALSE,
      processed_docs |-> IF failed THEN <<>> ELSE batch]

\* lines 176-191: doc["id"] raises KeyError on a document without an id,
\* which ends the try block before the bulk call.
BodyRaises(processed_docs) ==
  \E i \in 1..Len(processed_docs) : "id" \notin DOMAIN processed_docs[i]

\* Variant: the directives keyed by the position in the batch.
bulk_body_ByPosition(processed_docs) ==
  [i \in 1..Len(processed_docs) |-> [_id |-> i, doc |-> processed_docs[i]]]

\* The directives as the code builds them, keyed by doc["id"].
bulk_body(processed_docs) ==
  [i \in 1..Len(processed_docs) |->
     [_id |-> processed_docs[i]["id"], doc |-> processed_docs[i]]]

\* What search_client.bulk may do: execute the body and respond, or raise
\* without having written.
BulkAnswers == {"responds", "raises"}

\* lines 173-203: the bulk write of a batch onto the stored documents s.
index_docs(s, processed_docs, bulk_answer) ==
  IF Len(processed_docs) = 0
    THEN [store |-> s, bulk_calls |-> 0, bulk |-> "none", log |-> <<>>]
  ELSE IF BodyRaises(processed_docs)
    THEN [store |-> s, bulk_calls |-> 0, bulk |-> "none",
          log |-> <<"info: bulk indexing", "error: bulk update error">>]
  ELSE IF bulk_answer = "raises"
    THEN [store |-> s, bulk_calls |-> 1, bulk |-> "raised",
          log |-> <<"info: bulk indexing", "error: bulk update error">>]
  ELSE LET body == bulk_body(processed_docs)
       IN [store |-> BulkApply(s, body), bulk_calls |-> 1,
           bulk |-> IF BulkErrors(body) THEN "errors" ELSE "ok",
           log |-> <<"info: bulk indexing",
                     IF BulkErrors(body) THEN "error: bulk update failed"
                     ELSE "info: bulk update succeeded">>]

\* ---------------------------------------------------------------- state
VARIABLES
  indexExists,   \* search_client.indices.exists("twitter")
  store,         \* the documents of the index, by _id
  createCalls,   \* the indices.create requests issued so far
  engines,       \* per engine: how far __init__ got, recall_size, crawler
  call           \* the call that has just completed, until its caller returns

vars == <<indexExists, store, createCalls, engines, call>>

EmptyStore == <<>>

NewEngine == [pc |-> "new", recall_size |-> 1, twitter_crawler |-> "None"]

NoCall ==
  [op |-> "none", engine |-> 1,
   request |-> Request("SearchSynapse", {"alpha"}, 1, "None", NoneOpt, NoneOpt),
   answer |-> "hits", hits |-> <<>>, recalled |-> <<>>, strategy |-> "none",
   rank_calls |-> 0, rank_raised |-> FALSE, results |-> <<>>,
   raised |-> FALSE,
   crawl_answer |-> "docs", batch |-> <<>>, crawl_attempts |-> 0,
   crawl_failed |-> FALSE, bulk_calls |-> 0, bulk |-> "none", log |-> <<>>,
   before |-> EmptyStore, again |-> FALSE, first_bulk |-> "none"]

Init ==
  /\ indexExists = FALSE
  /\ store = EmptyStore
  /\ createCalls = 0
  /\ engines = [e \in Engines |-> NewEngine]
  /\ call = NoCall

\* __init__ up to the test of init_indices (line 52): the engine is given
\* its recall_size and crawler and asks whether the index exists.
init_indices_exists(e) ==
  /\ engines[e].pc = "new"
  /\ \E rs \in RecallSizes, crawler \in Crawlers :
       engines' = [engines EXCEPT ![e] =
                     [pc |-> IF indexExists THEN "ready" ELSE "creating",
                      recall_size |-> rs, twitter_crawler |-> crawler]]
  /\ UNCHANGED <<indexExists, store, createCalls, call>>

\* init_indices, lines 54-71: the index was absent at the test, so it is
\* created.  The backend refuses to create an index that exists by now, and
\* the exception leaves __init__.
init_indices_create(e) ==
  /\ engines[e].pc = "creating"
  /\ createCalls' = createCalls + 1
  /\ indexExists' = TRUE
  /\ engines' = [engines EXCEPT ![e].pc =
                   IF indexExists THEN "failed" ELSE "ready"]
  /\ UNCHANGED <<store, call>>

\* search, lines 73-99.
search(e) ==
  /\ engines[e].pc = "ready"
  /\ call.op = "none"
  /\ \E search_query \in Requests, answer \in Answers :
       LET esq == es_query(search_query, engines[e].recall_size)
       IN \E hits \in (IF answer = "hits" THEN HitLists(store, esq) ELSE {<<>>}) :
            LET recalled_items == recall(answer, hits)
                model == ranking_model(search_query)
            IN \E rk \in RankOutcomes(model, recalled_items) :
                 call' = [NoCall EXCEPT
                            !.op = "search", !.engine = e,
                            !.request = search_query, !.answer = answer,
                            !.hits = hits, !.recalled = recalled_items,
                            !.strategy = model, !.rank_calls = 1,
                            !.rank_raised = rk.raised,
                            !.results = IF rk.raised THEN <<>>
                                        ELSE Truncate(rk.ranked, search_query.size),
                            !.raised = rk.raised,
                            !.before = store]
  /\ UNCHANGED <<indexExists, store, createCalls, engines>>

\* crawl_and_index_data, lines 157-203, with what the crawler and the bulk
\* write answer.
Ingest(e, crawl_answer, batch, bulk_answer, again, first_bulk) ==
  LET c == crawl(engines[e].twitter_crawler, crawl_answer, batch)
      w == index_docs(store, c.processed_docs, bulk_answer)
  IN /\ store' = (IF c.raised THEN store ELSE w.store)
     /\ call' = [NoCall EXCEPT
                   !.op = "crawl", !.engine = e,
                   !.crawl_answer = crawl_answer, !.batch = batch,
                   !.crawl_attempts = c.crawl_attempts,
                   !.crawl_failed = c.failed,
                   !.bulk_calls = IF c.raised THEN 0 ELSE w.bulk_calls,
                   !.bulk = IF c.raised THEN "none" ELSE w.bulk,
                   !.log = IF c.raised THEN c.log ELSE c.log \o w.log,
                   !.raised = c.raised,
                   !.before = store, !.again = again,
                   !.first_bulk = first_bulk]
     /\ UNCHANGED <<indexExists, createCalls, engines>>

crawl_and_index_data(e) ==
  /\ engines[e].pc = "ready"
  /\ call.op = "none"
  /\ \E crawl_answer \in CrawlAnswers, bulk_answer \in BulkAnswers :
       \E batch \in (IF crawl_answer = "docs" THEN Batches ELSE {<<>>}) :
         Ingest(e, crawl_answer, batch, bulk_answer, FALSE, "none")

\* The same engine is called a second time and its crawler answers with
\* the documents it answered with the first time.
crawl_and_index_data_again(e) ==
  /\ engines[e].pc = "ready"
  /\ call.op = "crawl" /\ call.engine = e /\ ~call.again
  /\ call.crawl_answer = "docs"
  /\ \E bulk_answer \in BulkAnswers :
       Ingest(e, "docs", call.batch, bulk_answer, TRUE, call.bulk)

\* The caller takes the result of the completed call.
Return ==
  /\ call.op # "none"
  /\ call' = NoCall
  /\ UNCHANGED <<indexExists, store, createCalls, engines>>

Step(e) ==
  \/ init_indices_exists(e)
  \/ init_indices_create(e)
  \/ search(e)
  \/ crawl_and_index_data(e)
  \/ crawl_and_index_data_again(e)

\* One engine and its callers.
Next == Step(1) \/ Return

Spec == Init /\ [][Next]_vars

\* Several engines constructed against the same store, their steps
\* interleaved.
NextConcurrent == (\E e \in Engines : Step(e)) \/ Return

SpecConcurrent == Init /\ [][NextConcurrent]_vars

\* ---------------------------------------------------------------- claims
Searched == call.op = "search"
Crawled == call.op = "crawl"
Structured == call.request.name = "StructuredSearchSynapse"
EngineOfCall == engines[call.engine]

\* The stored documents the query of the completed search matches, whatever
\* the size asked for.
Matched == Matching(store, es_query(call.request, EngineOfCall.recall_size))

\* The recall of the completed search failed: the query raised, the
\* response was malformed, or a hit lacked one of the nine fields.
RecallFault ==
  \/ call.answer # "hits"
  \/ \E i \in 1..Len(call.hits) : MapperRaises(call.hits[i])

\* C1: a search that returns, returns at most request.size documents,
\* whatever the variant of the request, the stored documents and the
\* outcome of recall.
C1_LengthAtMostSize ==
  (Searched /\ ~call.raised) => Len(call.results) <= call.request.size

C1_Witness ==
  /\ Searched /\ ~call.raised
  /\ Len(call.recalled) > call.request.size
  /\ Len(call.results) = call.request.size

\* C2: a search invokes exactly one ranking model, once: the recency model
\* if and only if the request is the structured variant with sort_type
\* RECENCY, the relevance model supplied from outside in every other case
\* (every basic request whatever sort_type it carries, a structured request
\* with RELEVANCE or no sort_type).
C2_RecencyIffStructuredRecency ==
  Searched =>
    /\ call.rank_calls = 1
    /\ call.strategy \in {"recency", "relevance"}
    /\ call.strategy = "recency" <=>
         (Structured /\ call.request.sort_type = "RECENCY")
    /\ (~Structured \/ call.request.sort_type \in {"RELEVANCE", "None"})
         => call.strategy = "relevance"

C2_Witness ==
  /\ Searched
  /\ ~Structured /\ call.request.sort_type = "RECENCY"
  /\ call.strategy = "relevance"
  /\ Len(call.recalled) = 2 /\ call.results = <<call.recalled[1]>>
  /\ call.recalled[1]["created_at"] < call.recalled[2]["created_at"]

\* C3: when the store query raises or its response cannot be mapped, recall
\* gives the empty candidate list, and a search whose ranking model returns
\* returns the empty list and does not raise.
C3_RecallFaultGivesEmpty ==
  (Searched /\ RecallFault) =>
    /\ call.recalled = <<>>
    /\ ~call.rank_raised => (~call.raised /\ call.results = <<>>)

C3_Witness ==
  /\ Searched /\ call.answer = "hits"
  /\ Len(call.hits) = 2
  /\ ~MapperRaises(call.hits[1]) /\ MapperRaises(call.hits[2])
  /\ call.recalled = <<>> /\ call.results = <<>> /\ ~call.raised

\* The matched documents, latest first (they have distinct created_at).
MatchedLatestFirst ==
  LET n == Cardinality(Matched)
      ks == CHOOSE x \in InjSeqs(Matched, n) :
              \A i, j \in 1..n :
                i < j => store[x[i]]["created_at"] > store[x[j]]["created_at"]
  IN [i \in 1..n |-> store[ks[i]]]

DistinctCreatedAt ==
  \A a, b \in Matched : a # b => store[a]["created_at"] # store[b]["created_at"]

TextMatched ==
  {k \in DOMAIN store :
     "text" \in DOMAIN store[k] /\ call.request.query_string \subseteq store[k]["text"]}

\* C5: every time bound a structured request declares is applied to recall,
\* whatever its value: no recalled document is later than
\* earlier_than_timestamp or earlier than later_than_timestamp; a request
\* without bounds (every basic request) loses no document to its created_at.
C5_DeclaredBoundsApplied ==
  Searched =>
    LET earlier == call.request.earlier_than_timestamp
        later == call.request.later_than_timestamp
    IN /\ (Structured /\ earlier # NoneOpt) =>
            \A i \in 1..Len(call.recalled) :
              call.recalled[i]["created_at"] <= earlier[1]
       /\ (Structured /\ later # NoneOpt) =>
            \A i \in 1..Len(call.recalled) :
              call.recalled[i]["created_at"] >= later[1]
       /\ ((~Structured \/ (earlier = NoneOpt /\ later = NoneOpt)) /\ ~RecallFault) =>
            Len(call.recalled) = Min(EngineOfCall.recall_size, Cardinality(TextMatched))

\* C6: the crawl_and_index_data of an engine without a crawler is skipped
\* entirely: it does not raise, makes no crawl attempt, issues no bulk write
\* and leaves the stored documents as they were.
C6_NoCrawlerSkipsEntirely ==
  (Crawled /\ EngineOfCall.twitter_crawler = "None") =>
    /\ ~call.raised
    /\ call.crawl_attempts = 0
    /\ call.bulk_calls = 0
    /\ store = call.before

\* A document of a batch that cannot be written: it has no id, or the
\* backend rejects it.
Malformed(doc) == "id" \notin DOMAIN doc \/ ~MappingAccepts(doc)

Persisted(doc) ==
  /\ doc["id"] \in DOMAIN store
  /\ \A f \in DOMAIN doc : f \in DOMAIN store[doc["id"]] /\ store[doc["id"]][f] = doc[f]

\* C7: of a crawled batch holding one malformed document among valid ones,
\* written to a backend that answers, every valid document is persisted.
C7_OneMalformedOthersPersisted ==
  (/\ Crawled /\ ~call.crawl_failed /\ call.bulk # "raised"
   /\ Cardinality({i \in 1..Len(call.batch) : Malformed(call.batch[i])}) = 1
   /\ \A i \in 1..Len(call.batch) :
        Malformed(call.batch[i]) \/ call.batch[i] \in ValidDocs)
  => \A i \in 1..Len(call.batch) :
       ~Malformed(call.batch[i]) => Persisted(call.batch[i])

\* C8: every stored document is stored under its own id, and a second
\* crawl_and_index_data whose crawl result is that of the first (whose bulk
\* write, if one was issued, was executed) leaves the stored documents and
\* the set of stored ids as the first call left them.
C8_SecondIngestChangesNothing ==
  /\ \A k \in DOMAIN store : "id" \in DOMAIN store[k] /\ store[k]["id"] = k
  /\ (Crawled /\ call.again /\ call.first_bulk # "raised") => store = call.before

C8_Witness ==
  /\ Crawled /\ call.again
  /\ call.first_bulk = "ok" /\ call.bulk = "ok"
  /\ Len(call.batch) = 2
  /\ \A i \in 1..2 : Persisted(call.batch[i])
  /\ store = call.before

\* C9: crawl_and_index_data never raises, whatever the crawler and the bulk
\* write do; it issues at most one bulk write; a failed crawl (no crawler,
\* an exception, a result that is no sequence) and an empty crawl result
\* issue none and leave the stored documents as they were.
C9_IngestNeverRaises ==
  Crawled =>
    /\ ~call.raised
    /\ call.bulk_calls <= 1
    /\ (call.crawl_failed \/ call.batch = <<>>) =>
         (call.bulk_calls = 0 /\ store = call.before)

C9_Witness ==
  /\ Crawled /\ ~call.raised
  /\ EngineOfCall.twitter_crawler = "crawler"
  /\ call.crawl_answer = "not_a_sequence"
  /\ call.crawl_failed /\ call.bulk_calls = 0
  /\ store # EmptyStore /\ store = call.before

\* C10: the index is created at most once: however many engines are
\* constructed against one store, and however their constructions
\* interleave, at most one create is issued, no construction raises because
\* the index exists already, and no search or bulk write is issued before
\* the index exists.
C10_IndexCreatedAtMostOnce ==
  /\ createCalls <= 1
  /\ \A e \in Engines : engines[e].pc # "failed"
  /\ call.op # "none" => indexExists

====
